---- MODULE Spec2Model ----
\* A model of the SSRN crawler: the Abstract Fetcher (download_abstract.py,
\* class AbstractDownloader) and the Listing Collector (get_list_by_jel_code.py).
\* Both programs are single-threaded; a step of the model is one iteration of a
\* loop of the code, or one attempt of the tenacity retry wrapper, with the
\* answer of the remote site chosen nondeterministically.
EXTENDS Naturals, Integers, Sequences, FiniteSets, TLC

\* ---------------------------------------------------------------------------
\* Bounds of the model
\* ---------------------------------------------------------------------------
\* Longest input document (number of items of the listing document).
MaxPapers == 2
\* Longest input document of the runs against a site that answers every request.
MaxLongPapers == 5
\* Most failing requests the site answers with during one run.
MaxFaults == 4

\* ---------------------------------------------------------------------------
\* Program constants
\* ---------------------------------------------------------------------------
\* stop_after_attempt(3)
MaxAttempts == 3
\* len(self.result_dict) % 5 == 0
CheckpointEvery == 5

\* ---------------------------------------------------------------------------
\* Strings. A URL is a sequence of tokens; the query key "abstract_id=" and the
\* separator "&" are tokens of their own, so that str.split is computed as the
\* code computes it.
\* ---------------------------------------------------------------------------
Range(s) == {s[j] : j \in 1..Len(s)}

\* s.split(sep)[-1]: what follows the last occurrence of sep, all of s if none.
SplitLast(s, sep) ==
    LET hits == {j \in 1..Len(s) : s[j] = sep}
        last == IF hits = {} THEN 0 ELSE CHOOSE j \in hits : \A h \in hits : h <= j
    IN  SubSeq(s, last + 1, Len(s))

\* s.split(sep)[0]: what precedes the first occurrence of sep, all of s if none.
SplitFirst(s, sep) ==
    LET hits  == {j \in 1..Len(s) : s[j] = sep}
        first == IF hits = {} THEN Len(s) + 1
                 ELSE CHOOSE j \in hits : \A h \in hits : j <= h
    IN  SubSeq(s, 1, first - 1)

\* A derivation that forgets the split on "&".
AbstractIdWholeTail(url) == SplitLast(url, "abstract_id=")

\* paper["url"].split("abstract_id=")[-1].split("&")[0]
AbstractId(url) == SplitFirst(SplitLast(url, "abstract_id="), "&")

Url(n) == <<"papers.cfm?", "abstract_id=", n>>
UrlMore(n) == <<"papers.cfm?", "abstract_id=", n, "&", "download=yes">>

\* ---------------------------------------------------------------------------
\* Input items: JSON objects, modelled as records whose DOMAIN is the set of
\* keys present.
\* ---------------------------------------------------------------------------
\* Items as the Listing Collector writes them (no "abstract_id" key).
ListedItems ==
    { [title |-> "T1", url |-> Url("1")],
      [title |-> "T1", url |-> UrlMore("1")],
      [title |-> "T2", url |-> Url("2")] }

\* Further listed items, for input documents long enough to reach a checkpoint.
MoreListedItems ==
    { [title |-> "T3", url |-> Url("3")],
      [title |-> "T4", url |-> Url("4")],
      [title |-> "T5", url |-> Url("5")] }

\* Items that also carry an "abstract_id" key.
KeyedItems ==
    { [title |-> "T1", url |-> Url("1"), abstract_id |-> <<"1">>],
      [title |-> "T2", url |-> Url("2"), abstract_id |-> <<"2">>] }

\* Items missing a required key.
MalformedItems ==
    { [title |-> "T1"],
      [url |-> Url("2")],
      [paper_id |-> "9"] }

Items == ListedItems \cup KeyedItems \cup MalformedItems

\* Ids a prior results document may hold.
ResumeIds == {<<"1">>}

\* Abstract paragraphs the site may serve.
Abstracts == {"abs-a", "abs-b"}

\* What one detail-page request can end in: a page with an abstract paragraph,
\* a page without one, a non-2xx status, or a timeout / connection error.
Responses ==
    [kind : {"page"}, abstract : Abstracts]
      \cup {[kind |-> "nopage"]}
      \cup [kind : {"status"}, code : {429, 404, 500}]
      \cup {[kind |-> "error"]}

IsFailure(resp) == resp.kind \in {"status", "error"}

NoPaper == [unset |-> TRUE]
EmptyDict == [x \in {} |-> x]

\* d[key] = value on a Python dict
DictSet(d, key, value) ==
    [x \in DOMAIN d \cup {key} |-> IF x = key THEN value ELSE d[x]]

VARIABLES
    \* ---- Abstract Fetcher ----
    pc,             \* where run() is: "idle", "loop", "fetch", "sweep", "done",
                    \* or "aborted" when an exception has left run()
    existing_ids,   \* the module-level _existing_ids (Resume Set)
    i,              \* number of input items the primary loop has taken
    paper,          \* the item of the current loop iteration
    is_retry,       \* the is_retry argument of the current download_abstract call
    attempt,        \* attempt number of the tenacity wrapper in the current call
    returned,       \* how the last download_abstract call ended: "", "record", "none", "raise"
    result,         \* the record it returned: {} or {record}
    result_dict,    \* self.result_dict
    failed_papers,  \* self.failed_papers
    retry_papers,   \* the snapshot taken by retry_failed_papers
    k,              \* index of the sweep in retry_papers
    results_file,   \* <stem>_with_abstracts.json: {} when absent, {content} when written
    failed_file,    \* <stem>_failed_papers.json: {} when absent, {content} when written
    \* ---- observations of the run ----
    successes,      \* records accumulated so far by the primary pass
    call_appends,   \* entries the current download_abstract call appended to failed_papers
    faults,         \* failing requests so far
    save_error      \* the save whose write failed last: "" when none, else
                    \* "checkpoint", "after_failure", "sweep" or "final"

fetcherVars ==
    <<pc, existing_ids, i, paper, is_retry, attempt, returned, result, result_dict,
      failed_papers, retry_papers, k, results_file, failed_file,
      successes, call_appends, faults, save_error>>

VARIABLES
    \* ---- Listing Collector ----
    lpc,            \* where get_list_by_jel_code is: "idle", "page", "returned",
                    \* or "raised" when an exception has left the function
    site,           \* what the listing site answers for pages 1..Len(site)
    total_elem,     \* li.total of page 1: {} when absent, {text} when present
    max_pages_arg,  \* the max_pages argument: {} for None, {m} for m
    max_pages,      \* the local max_pages, which page 1 may overwrite
    page,           \* the local page
    papers,         \* the local papers
    requested,      \* the page numbers requested so far, in order
    listing_file    \* ssrn_papers_jel_<code>_<time>.json: {} when absent, {content}
                    \* or CutOffListing

listVars ==
    <<lpc, site, total_elem, max_pages_arg, max_pages, page, papers, requested,
      listing_file>>

vars == <<fetcherVars, listVars>>

\* ---------------------------------------------------------------------------
\* AbstractDownloader
\* ---------------------------------------------------------------------------
\* One execution of the body of download_abstract (one attempt of the retry
\* wrapper) on `item`, the site answering `resp`:
\*   request : whether client.get was reached
\*   ends    : "record", "none" or "raise"
\*   append  : whether the attempt appended the item to failed_papers
\* A missing key raises KeyError inside the try block, which the generic
\* handler catches; the handler's log line reads paper['title'] before it
\* appends, so when the title is missing the KeyError leaves the handler at
\* once.
DownloadAttempt(item, retry, resp) ==
    LET hasUrl   == "url" \in DOMAIN item
        hasTitle == "title" \in DOMAIN item
    IN  IF ~hasUrl
        THEN [request |-> FALSE, ends |-> "raise", append |-> hasTitle /\ ~retry]
        ELSE IF resp.kind = "page"
        THEN [request |-> TRUE, ends |-> IF hasTitle THEN "record" ELSE "raise",
              append |-> FALSE]
        ELSE IF resp.kind = "nopage"
        THEN [request |-> TRUE, ends |-> IF hasTitle THEN "none" ELSE "raise",
              append |-> FALSE]
        ELSE IF resp.kind = "status"
        THEN [request |-> TRUE, ends |-> "raise",
              append |-> resp.code = 429 /\ hasTitle /\ ~retry]
        ELSE [request |-> TRUE, ends |-> "raise", append |-> hasTitle /\ ~retry]

\* The record download_abstract returns.
AbstractRecord(item, resp) ==
    [abstract_id |-> AbstractId(item.url),
     title       |-> item.title,
     url         |-> item.url,
     abstract    |-> resp.abstract]

\* A store that keys the record by its url instead.
ResultKeyByUrl(rec) == rec.url

\* The key run and retry_failed_papers store a record under.
ResultKey(rec) == rec.abstract_id

\* save_results: the whole mapping replaces the document.
SaveResults(d) == {d}

\* What a write that raises leaves of a document: open() failed and the
\* document is untouched, or open() truncated it and the dump failed.
FailedWrite(file) == {file, {}}

\* A handler for a failed item that leaves the document as it is.
FailureSaveSkipped(d, file) == file

\* The save in the primary loop's handler for a failed item.
FailureSave(d, file) == SaveResults(d)

\* A test that skips only the items that lack both keys.
MalformedBoth(item) == "url" \notin DOMAIN item /\ "title" \notin DOMAIN item

\* A test that looks at the url only.
MalformedNoUrl(item) == "url" \notin DOMAIN item

\* The primary loop's test for an item it does not process.
Malformed(item) == "url" \notin DOMAIN item \/ "title" \notin DOMAIN item

\* The primary loop's checkpoint test.
CheckpointDue(d) == Cardinality(DOMAIN d) % CheckpointEvery = 0

InitFetcher ==
    /\ pc = "loop"
    /\ existing_ids \in SUBSET ResumeIds
    /\ i = 0
    /\ paper = NoPaper
    /\ is_retry = FALSE
    /\ attempt = 0
    /\ returned = ""
    /\ result = {}
    /\ result_dict = EmptyDict
    /\ failed_papers = <<>>
    /\ retry_papers = <<>>
    /\ k = 0
    /\ results_file = {}
    /\ failed_file = {}
    /\ successes = 0
    /\ call_appends = 0
    /\ faults = 0
    /\ save_error = ""

\* The loop takes an item that lacks a required key: continue.
SkipPaper(S, n) ==
    /\ UNCHANGED <<listVars, save_error>>
    /\ pc = "loop"
    /\ i < n
    /\ \E item \in S :
         /\ Malformed(item)
         /\ paper' = item
    /\ i' = i + 1
    /\ returned' = ""
    /\ result' = {}
    /\ UNCHANGED <<pc, existing_ids, is_retry, attempt, result_dict, failed_papers,
                   retry_papers, k, results_file, failed_file, successes, call_appends, faults>>

\* The loop takes an item and calls download_abstract(paper).
CallDownload(S, n) ==
    /\ UNCHANGED <<listVars, save_error>>
    /\ pc = "loop"
    /\ i < n
    /\ \E item \in S :
         /\ ~Malformed(item)
         /\ paper' = item
    /\ i' = i + 1
    /\ pc' = "fetch"
    /\ is_retry' = FALSE
    /\ attempt' = 1
    /\ returned' = ""
    /\ result' = {}
    /\ call_appends' = 0
    /\ UNCHANGED <<existing_ids, result_dict, failed_papers, retry_papers, k,
                   results_file, failed_file, successes, faults>>

\* What an attempt leaves behind whatever its end: the request and the append.
AttemptEffects(resp, out) ==
    /\ failed_papers' = IF out.append THEN Append(failed_papers, paper) ELSE failed_papers
    /\ call_appends' = IF out.append THEN call_appends + 1 ELSE call_appends
    /\ faults' = IF out.request /\ IsFailure(resp) THEN faults + 1 ELSE faults

\* The site may fail a request only while the fault budget lasts.
WithinBudget(resp, out) == (out.request /\ IsFailure(resp)) => faults < MaxFaults

\* An attempt fails and the retry wrapper starts the next one.
AttemptFails ==
    /\ UNCHANGED <<listVars, save_error>>
    /\ pc = "fetch"
    /\ attempt < MaxAttempts
    /\ \E resp \in Responses :
         LET out == DownloadAttempt(paper, is_retry, resp) IN
         /\ out.ends = "raise"
         /\ WithinBudget(resp, out)
         /\ AttemptEffects(resp, out)
    /\ attempt' = attempt + 1
    /\ UNCHANGED <<pc, existing_ids, i, paper, is_retry, returned, result, result_dict,
                   retry_papers, k, results_file, failed_file, successes>>

\* Primary pass: download_abstract returns a record; the loop stores it and
\* saves when the size of the mapping is a multiple of 5.
PrimaryRecord ==
    /\ UNCHANGED <<listVars, save_error>>
    /\ pc = "fetch" /\ ~is_retry
    /\ \E resp \in Responses :
         LET out == DownloadAttempt(paper, is_retry, resp)
             rec == AbstractRecord(paper, resp)
             d   == DictSet(result_dict, ResultKey(rec), rec)
         IN  /\ out.ends = "record"
             /\ AttemptEffects(resp, out)
             /\ result' = {rec}
             /\ result_dict' = d
             /\ results_file' = IF CheckpointDue(d) THEN SaveResults(d) ELSE results_file
    /\ returned' = "record"
    /\ successes' = successes + 1
    /\ pc' = "loop"
    /\ UNCHANGED <<existing_ids, i, paper, is_retry, attempt, retry_papers, k, failed_file>>

\* Primary pass: the page has no abstract paragraph; download_abstract returns None.
PrimaryNone ==
    /\ UNCHANGED <<listVars, save_error>>
    /\ pc = "fetch" /\ ~is_retry
    /\ \E resp \in Responses :
         LET out == DownloadAttempt(paper, is_retry, resp) IN
         /\ out.ends = "none"
         /\ AttemptEffects(resp, out)
    /\ returned' = "none"
    /\ pc' = "loop"
    /\ UNCHANGED <<existing_ids, i, paper, is_retry, attempt, result, result_dict,
                   retry_papers, k, results_file, failed_file, successes>>

\* Primary pass: the last attempt fails, the wrapper re-raises, and the loop's
\* handler saves the results.
PrimaryRaise ==
    /\ UNCHANGED <<listVars, save_error>>
    /\ pc = "fetch" /\ ~is_retry
    /\ attempt = MaxAttempts
    /\ \E resp \in Responses :
         LET out == DownloadAttempt(paper, is_retry, resp) IN
         /\ out.ends = "raise"
         /\ WithinBudget(resp, out)
         /\ AttemptEffects(resp, out)
    /\ returned' = "raise"
    /\ results_file' = FailureSave(result_dict, results_file)
    /\ pc' = "loop"
    /\ UNCHANGED <<existing_ids, i, paper, is_retry, attempt, result, result_dict,
                   retry_papers, k, failed_file, successes>>

\* Primary pass: the checkpoint save raises; the loop's handler catches it and
\* saves again; if that write raises too, the exception leaves run.
PrimaryRecordSaveFails ==
    /\ UNCHANGED listVars
    /\ pc = "fetch" /\ ~is_retry
    /\ \E resp \in Responses :
         LET out == DownloadAttempt(paper, is_retry, resp)
             rec == AbstractRecord(paper, resp)
             d   == DictSet(result_dict, ResultKey(rec), rec)
         IN  /\ out.ends = "record"
             /\ CheckpointDue(d)
             /\ AttemptEffects(resp, out)
             /\ result' = {rec}
             /\ result_dict' = d
             /\ \E again \in BOOLEAN :
                  IF again
                  THEN /\ results_file' = FailureSave(d, results_file)
                       /\ pc' = "loop"
                  ELSE /\ results_file' \in FailedWrite(results_file)
                       /\ pc' = "aborted"
    /\ returned' = "record"
    /\ successes' = successes + 1
    /\ save_error' = "checkpoint"
    /\ UNCHANGED <<existing_ids, i, paper, is_retry, attempt, retry_papers, k, failed_file>>

\* Primary pass: the last attempt fails and the save in the loop's handler
\* raises: the exception leaves run.
PrimaryRaiseSaveFails ==
    /\ UNCHANGED listVars
    /\ pc = "fetch" /\ ~is_retry
    /\ attempt = MaxAttempts
    /\ \E resp \in Responses :
         LET out == DownloadAttempt(paper, is_retry, resp) IN
         /\ out.ends = "raise"
         /\ WithinBudget(resp, out)
         /\ AttemptEffects(resp, out)
    /\ returned' = "raise"
    /\ results_file' \in FailedWrite(results_file)
    /\ save_error' = "after_failure"
    /\ pc' = "aborted"
    /\ UNCHANGED <<existing_ids, i, paper, is_retry, attempt, result, result_dict,
                   retry_papers, k, failed_file, successes>>

\* An end of run that writes the failed-items document whatever the queue.
FinalizedWritesQueueAlways ==
    /\ results_file' = SaveResults(result_dict')
    /\ failed_file' = {failed_papers'}
    /\ pc' = "done"

\* save_results then save_failed_papers, at the end of run.
Finalized ==
    /\ results_file' = SaveResults(result_dict')
    /\ failed_file' = IF failed_papers' # <<>> THEN {failed_papers'} ELSE failed_file
    /\ pc' = "done"

\* The input is exhausted and nothing failed: retry_failed_papers returns at
\* once and run saves and returns.
EndNoFailures ==
    /\ UNCHANGED <<listVars, save_error>>
    /\ pc = "loop"
    /\ failed_papers = <<>>
    /\ UNCHANGED <<result_dict, failed_papers>>
    /\ Finalized
    /\ UNCHANGED <<existing_ids, i, paper, is_retry, attempt, returned, result,
                   retry_papers, k, successes, call_appends, faults>>

\* The input is exhausted: retry_failed_papers snapshots and clears the queue.
StartSweep ==
    /\ UNCHANGED <<listVars, save_error>>
    /\ pc = "loop"
    /\ failed_papers # <<>>
    /\ retry_papers' = failed_papers
    /\ failed_papers' = <<>>
    /\ k' = 1
    /\ pc' = "sweep"
    /\ UNCHANGED <<existing_ids, i, paper, is_retry, attempt, returned, result,
                   result_dict, results_file, failed_file, successes,
                   call_appends, faults>>

\* A sweep that stays on the item it has just handled.
SweepStays == k' = k /\ pc' = "sweep"

\* The sweep moves on to the next snapshotted item.
SweepAdvance == k' = k + 1 /\ pc' = "sweep"

\* The sweep reads paper["abstract_id"] of an item that has no such key: the
\* KeyError is caught by the sweep's handler, which re-appends the item.
SweepKeyError ==
    /\ UNCHANGED <<listVars, save_error>>
    /\ pc = "sweep" /\ k <= Len(retry_papers)
    /\ "abstract_id" \notin DOMAIN retry_papers[k]
    /\ paper' = retry_papers[k]
    /\ failed_papers' = Append(failed_papers, retry_papers[k])
    /\ SweepAdvance
    /\ UNCHANGED <<existing_ids, i, is_retry, attempt, returned, result, result_dict,
                   retry_papers, results_file, failed_file, successes,
                   call_appends, faults>>

\* The sweep skips an item whose "abstract_id" is in the Resume Set.
SweepSkip ==
    /\ UNCHANGED <<listVars, save_error>>
    /\ pc = "sweep" /\ k <= Len(retry_papers)
    /\ "abstract_id" \in DOMAIN retry_papers[k]
    /\ retry_papers[k].abstract_id \in existing_ids
    /\ paper' = retry_papers[k]
    /\ SweepAdvance
    /\ UNCHANGED <<existing_ids, i, is_retry, attempt, returned, result, result_dict,
                   failed_papers, retry_papers, results_file, failed_file,
                   successes, call_appends, faults>>

\* The sweep calls download_abstract(paper, is_retry=True).
SweepCall ==
    /\ UNCHANGED <<listVars, save_error>>
    /\ pc = "sweep" /\ k <= Len(retry_papers)
    /\ "abstract_id" \in DOMAIN retry_papers[k]
    /\ retry_papers[k].abstract_id \notin existing_ids
    /\ paper' = retry_papers[k]
    /\ pc' = "fetch"
    /\ is_retry' = TRUE
    /\ attempt' = 1
    /\ returned' = ""
    /\ result' = {}
    /\ call_appends' = 0
    /\ UNCHANGED <<existing_ids, i, result_dict, failed_papers, retry_papers, k,
                   results_file, failed_file, successes, faults>>

\* Sweep: download_abstract returns a record; it is stored and saved.
SweepRecord ==
    /\ UNCHANGED <<listVars, save_error>>
    /\ pc = "fetch" /\ is_retry
    /\ \E resp \in Responses :
         LET out == DownloadAttempt(paper, is_retry, resp)
             rec == AbstractRecord(paper, resp)
             d   == DictSet(result_dict, ResultKey(rec), rec)
         IN  /\ out.ends = "record"
             /\ AttemptEffects(resp, out)
             /\ result' = {rec}
             /\ result_dict' = d
             /\ results_file' = SaveResults(d)
    /\ returned' = "record"
    /\ SweepAdvance
    /\ UNCHANGED <<existing_ids, i, paper, is_retry, attempt, retry_papers,
                   failed_file, successes>>

\* Sweep: download_abstract returns a record and it is stored, but the save
\* raises: the sweep's handler catches the exception and re-appends the item.
SweepRecordSaveFails ==
    /\ UNCHANGED listVars
    /\ pc = "fetch" /\ is_retry
    /\ \E resp \in Responses :
         LET out == DownloadAttempt(paper, is_retry, resp)
             rec == AbstractRecord(paper, resp)
             d   == DictSet(result_dict, ResultKey(rec), rec)
         IN  /\ out.ends = "record"
             /\ result' = {rec}
             /\ result_dict' = d
             /\ failed_papers' = Append(failed_papers, paper)
    /\ results_file' \in FailedWrite(results_file)
    /\ returned' = "record"
    /\ save_error' = "sweep"
    /\ SweepAdvance
    /\ UNCHANGED <<existing_ids, i, paper, is_retry, attempt, retry_papers,
                   failed_file, successes, call_appends, faults>>

\* Sweep: download_abstract returns None.
SweepNone ==
    /\ UNCHANGED <<listVars, save_error>>
    /\ pc = "fetch" /\ is_retry
    /\ \E resp \in Responses :
         LET out == DownloadAttempt(paper, is_retry, resp) IN
         /\ out.ends = "none"
         /\ AttemptEffects(resp, out)
    /\ returned' = "none"
    /\ SweepAdvance
    /\ UNCHANGED <<existing_ids, i, paper, is_retry, attempt, result, result_dict,
                   retry_papers, results_file, failed_file, successes>>

\* Sweep: the last attempt fails; the sweep's handler re-appends the item.
SweepRaise ==
    /\ UNCHANGED <<listVars, save_error>>
    /\ pc = "fetch" /\ is_retry
    /\ attempt = MaxAttempts
    /\ \E resp \in Responses :
         LET out == DownloadAttempt(paper, is_retry, resp) IN
         /\ out.ends = "raise"
         /\ WithinBudget(resp, out)
              /\ call_appends' = IF out.append THEN call_appends + 1 ELSE call_appends
         /\ faults' = IF out.request /\ IsFailure(resp) THEN faults + 1 ELSE faults
         /\ failed_papers' =
              Append(IF out.append THEN Append(failed_papers, paper) ELSE failed_papers,
                     paper)
    /\ returned' = "raise"
    /\ SweepAdvance
    /\ UNCHANGED <<existing_ids, i, paper, is_retry, attempt, result, result_dict,
                   retry_papers, results_file, failed_file, successes>>

\* The sweep is over: run saves the results and the failed papers and returns.
Finalize ==
    /\ UNCHANGED <<listVars, save_error>>
    /\ pc = "sweep" /\ k > Len(retry_papers)
    /\ UNCHANGED <<result_dict, failed_papers>>
    /\ Finalized
    /\ UNCHANGED <<existing_ids, i, paper, is_retry, attempt, returned, result,
                   retry_papers, k, successes, call_appends, faults>>

\* The primary pass and the sweep are over and a final write raises: the
\* write of the results, or after it the write of a non-empty queue.  The
\* exception leaves run.
FinalSaveFails ==
    /\ UNCHANGED listVars
    /\ \/ pc = "loop" /\ failed_papers = <<>>
       \/ pc = "sweep" /\ k > Len(retry_papers)
    /\ \E first \in BOOLEAN :
         IF first
         THEN /\ results_file' \in FailedWrite(results_file)
              /\ UNCHANGED failed_file
         ELSE /\ failed_papers # <<>>
              /\ results_file' = SaveResults(result_dict)
              /\ failed_file' \in FailedWrite(failed_file)
    /\ save_error' = "final"
    /\ pc' = "aborted"
    /\ UNCHANGED <<existing_ids, i, paper, is_retry, attempt, returned, result,
                   result_dict, failed_papers, retry_papers, k, successes,
                   call_appends, faults>>

\* ---------------------------------------------------------------------------
\* get_list_by_jel_code
\* ---------------------------------------------------------------------------
\* The directory urljoin resolves a relative href against.
BaseDir == "https://papers.ssrn.com/sol3/"

\* base_url: the listing page, in that directory.
BaseUrl == <<BaseDir, "jweljour_results.cfm">>

\* urljoin(base_url, href): an empty href gives base_url itself, an absolute
\* href is kept, a relative one is resolved against the directory of base_url.
UrlJoin(href) ==
    IF href = <<>> THEN BaseUrl
    ELSE IF href[1] = BaseDir THEN href
    ELSE <<BaseDir>> \o href

\* str.replace("div_", ""): every occurrence of the token is removed.
RECURSIVE RemoveToken(_, _)
RemoveToken(s, tok) ==
    IF s = <<>> THEN <<>>
    ELSE IF Head(s) = tok THEN RemoveToken(Tail(s), tok)
    ELSE <<Head(s)>> \o RemoveToken(Tail(s), tok)

\* Item elements (div.trow) a listing page may hold: a full one, one whose
\* link is absolute and that has no id attribute, one with no description,
\* one whose anchor has no href (attributes.get("href", "") gives "").
FullElement ==
    [id |-> <<"div_", "101">>,
     description |-> [anchor |-> [text |-> "T1", href |-> Url("1")]]]
NoIdElement ==
    [description |-> [anchor |-> [text |-> "T2", href |-> <<BaseDir>> \o Url("2")]]]
BareElement == [id |-> <<"div_">>]
NoHrefElement ==
    [id |-> <<"div_", "103">>,
     description |-> [anchor |-> [text |-> "T3", href |-> <<>>]]]

\* The record the loop body builds for one element: only the fields found.
ExtractPaper(element) ==
    LET paper_id == IF "id" \in DOMAIN element
                    THEN RemoveToken(element.id, "div_") ELSE <<>>
        idPart   == IF paper_id # <<>> THEN [paper_id |-> paper_id] ELSE EmptyDict
        descPart ==
            IF "description" \notin DOMAIN element THEN EmptyDict
            ELSE IF "anchor" \in DOMAIN element.description
            THEN [title   |-> element.description.anchor.text,
                  url     |-> UrlJoin(element.description.anchor.href),
                  authors |-> <<>>]
            ELSE [authors |-> <<>>]
    IN  idPart @@ descPart

\* A loop that puts each record in front of the list instead.
RECURSIVE AppendPageInFront(_, _)
AppendPageInFront(acc, elements) ==
    IF elements = <<>> THEN acc
    ELSE AppendPageInFront(<<ExtractPaper(Head(elements))>> \o acc, Tail(elements))

\* papers after the for loop over the elements of one page.
RECURSIVE AppendPage(_, _)
AppendPage(acc, elements) ==
    IF elements = <<>> THEN acc
    ELSE AppendPage(Append(acc, ExtractPaper(Head(elements))), Tail(elements))

\* What a request for one listing page can end in.
PageAnswers ==
    { [kind |-> "error"],
      [kind |-> "page", elements |-> <<>>],
      [kind |-> "page", elements |-> <<FullElement>>],
      [kind |-> "page", elements |-> <<NoIdElement, FullElement>>],
      [kind |-> "page", elements |-> <<FullElement, BareElement>>],
      [kind |-> "page", elements |-> <<NoHrefElement>>] }

\* Longest prefix of the site that is not an empty page.
MaxSitePages == 3
\* Largest max_pages argument and largest total-page indicator.
MaxPagesArg == 3
MaxTotal == 3

Option(S) == {{}} \cup {{x} : x \in S}
Value(opt) == CHOOSE x \in opt : TRUE

\* Python truth value of max_pages: None and 0 are false.
Truthy(opt) == opt # {} /\ opt # {0}

\* The answer of the site for page p; past the described pages it answers
\* with a page that has no item.
Answer(p) == IF p <= Len(site) THEN site[p] ELSE [kind |-> "page", elements |-> <<>>]

\* Texts of li.total, in tokens: the decimal text of an integer, the same
\* between blanks, and a text that is not an integer literal.
IndicatorTexts ==
    {<<ToString(n)>> : n \in -1..MaxTotal}
        \cup {<<" ", "2", " ">>, <<"1", ",", "234">>}

\* str.strip(): the blanks at both ends are removed.
RECURSIVE Strip(_)
Strip(t) ==
    IF t = <<>> THEN t
    ELSE IF Head(t) = " " THEN Strip(Tail(t))
    ELSE IF t[Len(t)] = " " THEN Strip(SubSeq(t, 1, Len(t) - 1))
    ELSE t

\* Whether int(t) returns: t is the decimal text of an integer.
IsIntText(t) == Len(t) = 1 /\ \E n \in -1..MaxTotal : ToString(n) = t[1]

\* int(t), for such a text.
IntOf(t) == CHOOSE n \in -1..MaxTotal : ToString(n) = t[1]

\* Whether int(total_pages_elem.text().strip()) raises ValueError on page p:
\* the indicator is read on page 1 only, whatever max_pages is.
TotalRaises(p, total) ==
    p = 1 /\ total # {} /\ ~IsIntText(Strip(Value(total)))

\* max_pages after the first-page block has read the total-page indicator.
AdoptTotal(mp, p, total) ==
    IF p = 1 /\ total # {} /\ mp = {} THEN {IntOf(Strip(Value(total)))} ELSE mp

\* The test at the top of the loop.
CapExceeded(mp, p) == Truthy(mp) /\ p > Value(mp)

\* The test after the items of a page were appended.
CapReached(mp, p) == Truthy(mp) /\ p >= Value(mp)

InitCollector ==
    /\ lpc = "page"
    /\ site \in [1..MaxSitePages -> PageAnswers]
    /\ total_elem \in Option(IndicatorTexts)
    /\ max_pages_arg \in Option(-1..MaxPagesArg)
    /\ max_pages = max_pages_arg
    /\ page = 1
    /\ papers = <<>>
    /\ requested = <<>>
    /\ listing_file = {}

\* A listing document that a failed dump left cut off: not a list of records.
CutOffListing == {<<[cut_off |-> TRUE]>>}

\* What the two writes of the save leave of the listing document, whose name
\* is new: the list, when the first write or the ASCII fallback succeeds;
\* nothing, when open() fails both times; a cut-off document, when a dump
\* fails and no later write succeeds.
SaveListing(list) == {{list}, {}, CutOffListing}

\* The loop is left: the papers are saved, both writes guarded, and returned
\* whatever became of the writes.
Returned ==
    /\ lpc' = "returned"
    /\ listing_file' \in SaveListing(papers')

\* The page number is past max_pages: break before any request.
CapBreak ==
    /\ UNCHANGED fetcherVars
    /\ lpc = "page"
    /\ CapExceeded(max_pages, page)
    /\ UNCHANGED papers
    /\ Returned
    /\ UNCHANGED <<site, total_elem, max_pages_arg, max_pages, page, requested>>

\* The request fails (httpx.HTTPError): logged, break.
PageError ==
    /\ UNCHANGED fetcherVars
    /\ lpc = "page"
    /\ ~CapExceeded(max_pages, page)
    /\ Answer(page).kind = "error"
    /\ requested' = Append(requested, page)
    /\ UNCHANGED papers
    /\ Returned
    /\ UNCHANGED <<site, total_elem, max_pages_arg, max_pages, page>>

\* Page 1 is served and its li.total is not an integer: int() raises
\* ValueError, which nothing catches; the function is left without a save and
\* without a return value.
PageTotalError ==
    /\ UNCHANGED fetcherVars
    /\ lpc = "page"
    /\ ~CapExceeded(max_pages, page)
    /\ Answer(page).kind = "page"
    /\ TotalRaises(page, total_elem)
    /\ requested' = Append(requested, page)
    /\ lpc' = "raised"
    /\ UNCHANGED <<site, total_elem, max_pages_arg, max_pages, page, papers,
                   listing_file>>

\* The page has no item element: break.
PageEmpty ==
    /\ UNCHANGED fetcherVars
    /\ lpc = "page"
    /\ ~CapExceeded(max_pages, page)
    /\ Answer(page).kind = "page"
    /\ ~TotalRaises(page, total_elem)
    /\ Answer(page).elements = <<>>
    /\ requested' = Append(requested, page)
    /\ max_pages' = AdoptTotal(max_pages, page, total_elem)
    /\ UNCHANGED papers
    /\ Returned
    /\ UNCHANGED <<site, total_elem, max_pages_arg, page>>

\* The page has items: they are appended; then break at max_pages, or go on
\* to the next page.
PageItems ==
    /\ UNCHANGED fetcherVars
    /\ lpc = "page"
    /\ ~CapExceeded(max_pages, page)
    /\ Answer(page).kind = "page"
    /\ ~TotalRaises(page, total_elem)
    /\ Answer(page).elements # <<>>
    /\ requested' = Append(requested, page)
    /\ max_pages' = AdoptTotal(max_pages, page, total_elem)
    /\ papers' = AppendPage(papers, Answer(page).elements)
    /\ IF CapReached(max_pages', page)
       THEN /\ Returned
            /\ UNCHANGED page
       ELSE /\ page' = page + 1
            /\ UNCHANGED <<lpc, listing_file>>
    /\ UNCHANGED <<site, total_elem, max_pages_arg>>

\* ---------------------------------------------------------------------------
\* Specifications
\* ---------------------------------------------------------------------------
IdleFetcher ==
    /\ pc = "idle"
    /\ existing_ids = {}
    /\ i = 0
    /\ paper = NoPaper
    /\ is_retry = FALSE
    /\ attempt = 0
    /\ returned = ""
    /\ result = {}
    /\ result_dict = EmptyDict
    /\ failed_papers = <<>>
    /\ retry_papers = <<>>
    /\ k = 0
    /\ results_file = {}
    /\ failed_file = {}
    /\ successes = 0
    /\ call_appends = 0
    /\ faults = 0
    /\ save_error = ""

IdleCollector ==
    /\ lpc = "idle"
    /\ site = <<>>
    /\ total_elem = {}
    /\ max_pages_arg = {}
    /\ max_pages = {}
    /\ page = 1
    /\ papers = <<>>
    /\ requested = <<>>
    /\ listing_file = {}

\* A run of the Abstract Fetcher on any input document of at most MaxPapers
\* items, against a site that may fail MaxFaults requests, every write of a
\* document succeeding.
Init == InitFetcher /\ IdleCollector

Next ==
    \/ SkipPaper(Items, MaxPapers)
    \/ CallDownload(Items, MaxPapers)
    \/ AttemptFails
    \/ PrimaryRecord
    \/ PrimaryNone
    \/ PrimaryRaise
    \/ EndNoFailures
    \/ StartSweep
    \/ SweepKeyError
    \/ SweepSkip
    \/ SweepCall
    \/ SweepRecord
    \/ SweepNone
    \/ SweepRaise
    \/ Finalize

Spec == Init /\ [][Next]_vars

\* A run of the Abstract Fetcher on a document of listed items of at most
\* MaxLongPapers items, against a site that answers every request with a page;
\* the write of a checkpoint may fail, the final write succeeds.
NextLong ==
    \/ CallDownload(ListedItems \cup MoreListedItems, MaxLongPapers)
    \/ PrimaryRecord
    \/ PrimaryRecordSaveFails
    \/ PrimaryNone
    \/ EndNoFailures

SpecLong == Init /\ [][NextLong]_vars

\* A call of get_list_by_jel_code, against a site chosen at the start; each
\* of the two writes of the final save may fail.
InitList == IdleFetcher /\ InitCollector

NextList ==
    \/ CapBreak
    \/ PageError
    \/ PageTotalError
    \/ PageEmpty
    \/ PageItems

SpecList == InitList /\ [][NextList]_vars

\* ---------------------------------------------------------------------------
\* Properties
\* ---------------------------------------------------------------------------
TypeOK ==
    /\ pc \in {"idle", "loop", "fetch", "sweep", "done", "aborted"}
    /\ save_error \in {"", "checkpoint", "after_failure", "sweep", "final"}
    /\ i \in 0..MaxLongPapers
    /\ attempt \in 0..MaxAttempts
    /\ faults \in 0..MaxFaults
    /\ lpc \in {"idle", "page", "returned", "raised"}

\* The primary pass has just seen download_abstract end in the given way.
PrimaryEnded(how) == pc = "loop" /\ ~is_retry /\ returned = how

\* C1: a primary-pass fetch that fails on all 3 attempts appends exactly one
\* entry for the item to failed_papers.
C1_OneEntryPerExhaustedFetch ==
    PrimaryEnded("raise") => call_appends = 1

\* C2: an item whose fetch fails on an earlier attempt and succeeds within the
\* 3 attempts of the same call is in result_dict and was not put in
\* failed_papers by that call.
C2_TransientFailureNotQueued ==
    (PrimaryEnded("record") /\ attempt > 1) =>
        /\ AbstractId(paper.url) \in DOMAIN result_dict
        /\ call_appends = 0

\* C3: whatever the kind of failure, a well-formed item whose primary-pass
\* fetch failed on all 3 attempts is in failed_papers.
C3_ExhaustedItemQueued ==
    PrimaryEnded("raise") => paper \in Range(failed_papers)

\* download_abstract is running on an item that has a url: the request for
\* that url is the next thing it does.
Requesting == pc = "fetch" /\ "url" \in DOMAIN paper

\* C4: no request is issued, in the primary pass or in the sweep, for an item
\* whose abstract_id is in the Resume Set.
C4_NoRequestForResumedId ==
    Requesting => AbstractId(paper.url) \notin existing_ids

\* C5: at the end of a run the mapping returned, and the document written,
\* hold every id of the Resume Set.
C5_FinalMappingContainsSeed ==
    pc = "done" =>
        /\ existing_ids \subseteq DOMAIN result_dict
        /\ \A d \in results_file : existing_ids \subseteq DOMAIN d

\* Every key of result_dict is the abstract_id of the record under it, and no
\* two entries hold records of the same abstract_id.
KeysMatch ==
    /\ \A key \in DOMAIN result_dict : result_dict[key].abstract_id = key
    /\ \A k1, k2 \in DOMAIN result_dict :
         result_dict[k1].abstract_id = result_dict[k2].abstract_id => k1 = k2

\* A step in which download_abstract returns a record, in either pass: the
\* record is then under its abstract_id, the other entries are untouched, and
\* if the id was there already the number of entries is the same.
StoreStep ==
    (pc = "fetch" /\ returned' = "record") =>
        LET rec == Value(result') IN
        /\ rec.abstract_id \in DOMAIN result_dict'
        /\ result_dict'[rec.abstract_id] = rec
        /\ \A key \in DOMAIN result_dict \ {rec.abstract_id} :
             key \in DOMAIN result_dict' /\ result_dict'[key] = result_dict[key]
        /\ rec.abstract_id \in DOMAIN result_dict =>
             Cardinality(DOMAIN result_dict') = Cardinality(DOMAIN result_dict)

\* C6: result_dict always holds at most one record per abstract_id, each under
\* its own abstract_id, and fetching an id again replaces its record by the
\* later one without changing the number of entries.
C6_UpsertKeepsOneRecordPerId == []KeysMatch /\ [][StoreStep]_vars

\* The same id was fetched twice by the primary pass and the second record,
\* which differs from the first, is the one kept.
C6_Witness ==
    /\ PrimaryEnded("record")
    /\ successes = 2
    /\ DOMAIN result_dict = {<<"1">>}
    /\ result = {result_dict[<<"1">>]}
    /\ result_dict[<<"1">>].url = UrlMore("1")

HasUrl(item) == "url" \in DOMAIN item

\* C7: an item without "url" is never given to download_abstract and is never
\* in failed_papers (nor in its snapshot or its document).
C7_NoUrlNeverFetchedNorQueued ==
    /\ pc = "fetch" => HasUrl(paper)
    /\ \A item \in Range(failed_papers) \cup Range(retry_papers) : HasUrl(item)
    /\ \A doc \in failed_file : \A item \in Range(doc) : HasUrl(item)

\* The loop has just skipped an item that has a title and no url, after an
\* earlier item was queued.
C7_Witness ==
    /\ pc = "loop"
    /\ i = 2
    /\ ~HasUrl(paper) /\ "title" \in DOMAIN paper
    /\ failed_papers # <<>>

\* C8: in the primary pass, after every 5th record accumulated the results
\* document equals result_dict, also when some records replaced earlier ones.
C8_CheckpointEveryFifthSuccess ==
    (PrimaryEnded("record") /\ successes > 0 /\ successes % CheckpointEvery = 0) =>
        results_file = {result_dict}

\* ---- Listing Collector ----
\* N: the first page that has no item or whose request fails.
FirstStop ==
    CHOOSE n \in 1..(Len(site) + 1) :
        /\ Answer(n).kind = "error" \/ Answer(n).elements = <<>>
        /\ \A p \in 1..(n - 1) : Answer(p).kind = "page" /\ Answer(p).elements # <<>>

\* One record per item element of pages 1..n, in page order and, within a
\* page, in the order of the elements.
RECURSIVE RecordsOfPages(_)
RecordsOfPages(n) ==
    IF n = 0 THEN <<>>
    ELSE RecordsOfPages(n - 1)
           \o [j \in 1..Len(Answer(n).elements) |-> ExtractPaper(Answer(n).elements[j])]

Min(a, b) == IF a <= b THEN a ELSE b

\* C9 as stated, on the calls whose max_pages is None or not negative: the
\* result is the records of pages 1..N-1, and the pages requested are 1..N,
\* each once.
C9_StopsAtFirstEmptyOrFailedPage ==
    (lpc = "returned" /\ max_pages_arg # {-1}) =>
        /\ papers = RecordsOfPages(FirstStop - 1)
        /\ requested = [p \in 1..FirstStop |-> p]

\* The integer the total-page indicator of page 1 reads, {} when page 1 is
\* not served, has no indicator, or has one that is not an integer literal.
Indicator ==
    IF Answer(1).kind = "page" /\ total_elem # {}
          /\ IsIntText(Strip(Value(total_elem)))
    THEN {IntOf(Strip(Value(total_elem)))} ELSE {}

\* The call raises instead of returning: max_pages is None or not negative,
\* page 1 is served and its indicator is not an integer literal.
IndicatorUnreadable ==
    /\ max_pages_arg = {} \/ Value(max_pages_arg) >= 0
    /\ Answer(1).kind = "page"
    /\ total_elem # {}
    /\ ~IsIntText(Strip(Value(total_elem)))

\* The page cap in force, {} when there is none.
\*   max_pages given:  m > 0 caps at m, m = 0 is no cap, m < 0 allows no page.
\*   max_pages None:   an indicator T > 0 caps at T, T = 0 or no indicator is
\*                     no cap, T < 0 stops after page 1.
CapInForce ==
    IF max_pages_arg # {}
    THEN (IF max_pages_arg = {0} THEN {}
          ELSE IF Value(max_pages_arg) < 0 THEN {0} ELSE max_pages_arg)
    ELSE IF Indicator = {} \/ Indicator = {0} THEN {}
    ELSE IF Value(Indicator) < 0 THEN {1} ELSE Indicator

\* C9 (amended): a call whose page-1 indicator cannot be read as an integer
\* raises after requesting page 1 and returns nothing. Every other call
\* returns the records of pages 1..K in page and item order, K the smaller of
\* N-1 and the cap in force, and the pages requested are 1..min(N, cap), each
\* once: page N is requested only when the cap allows it, once, and no page
\* after it.
C9_StopsAtFirstStopOrCap ==
    /\ lpc = "raised" =>
          /\ IndicatorUnreadable
          /\ requested = <<1>>
          /\ listing_file = {}
    /\ lpc = "returned" =>
          /\ ~IndicatorUnreadable
          /\ LET n    == FirstStop
                 last == IF CapInForce = {} THEN n ELSE Min(n, Value(CapInForce))
                 kept == Min(n - 1, last)
             IN  /\ papers = RecordsOfPages(kept)
                 /\ requested = [p \in 1..last |-> p]

\* The collection stopped at an explicit cap of 2 pages although the first
\* three pages all have items: pages 1 and 2 were requested and kept.
C9_Witness ==
    /\ lpc = "returned"
    /\ max_pages_arg = {2}
    /\ FirstStop = 4
    /\ requested = <<1, 2>>
    /\ Len(papers) >= 2

\* C10: with an explicit max_pages m >= 0 at most m pages are requested; with
\* none and a total-page indicator T on page 1, at most T pages are requested.
C10_AtMostMaxPagesRequests ==
    /\ (max_pages_arg # {} /\ Value(max_pages_arg) >= 0) =>
          Len(requested) <= Value(max_pages_arg)
    /\ (max_pages_arg = {} /\ requested # <<>> /\ Indicator # {}
          /\ Value(Indicator) >= 0) =>
          Len(requested) <= Value(Indicator)

\* ---- Abstract Fetcher, continued ----
\* C11: in the primary pass, however the fetch of an item ends (a record, no
\* abstract, or a failure after the last attempt), the loop goes on to the next
\* input item: the end of one item never ends the run.
C11_ItemFailureNeverEndsRun ==
    [][(pc = "fetch" /\ ~is_retry /\ pc' # "fetch") => pc' = "loop"]_vars

\* The step of the sweep in which a record was obtained and stored but the
\* save that follows it did not write the mapping.
SweepSaveFailed ==
    /\ pc = "fetch" /\ is_retry
    /\ returned' = "record"
    /\ results_file' # {result_dict'}

\* C12: a write of the results document that fails in an in-run save (the
\* checkpoint, the save after a failed item, the save after a sweep success)
\* does not end the run, and does not change the outcome already recorded for
\* the current item: an item whose record the sweep stored is not queued.
C12_InRunSaveFailureIsContained ==
    /\ [](save_error \in {"checkpoint", "after_failure", "sweep"} => pc # "aborted")
    /\ [][SweepSaveFailed => failed_papers' = failed_papers]_vars

\* C13: a primary-pass call of download_abstract that ends on a page without
\* an abstract paragraph (it returns None) has stored no record and has
\* appended nothing to failed_papers, so neither the retry wrapper nor the
\* sweep requests the item again.
C13_NoAbstractNeitherStoredNorQueued ==
    PrimaryEnded("none") => (result = {} /\ call_appends = 0)

\* ---- The derivation of abstract_id ----
\* The longest query string, in tokens, of the URLs the derivation is run on.
MaxUrlLen == 4
\* The number of items of the input documents made of these URLs.
MaxUrlPapers == 1

\* Pieces of a query string: the key with its "=", the separator "&", and a
\* text that holds neither.
UrlTokens == {"abstract_id=", "&", "1"}

\* Detail-page URLs: the page address followed by any query string of at most
\* MaxUrlLen pieces.
Urls ==
    {<<"papers.cfm?">> \o q : q \in UNION {[1..m -> UrlTokens] : m \in 0..MaxUrlLen}}

\* Input items with these URLs.
UrlItems == {[title |-> "T1", url |-> u] : u \in Urls}

\* A run of the Abstract Fetcher on a document of MaxUrlPapers items with such
\* URLs, against a site that answers every request with a page that has an
\* abstract, every write of a document succeeding.
NextId ==
    \/ CallDownload(UrlItems, MaxUrlPapers)
    \/ PrimaryRecord
    \/ EndNoFailures

SpecId == Init /\ [][NextId]_vars

\* The text of url that follows position p, up to but not including the next
\* "&", or to the end of url when no "&" follows.
TextAfter(url, p) ==
    LET amps == {j \in (p + 1)..Len(url) : url[j] = "&"}
        stop == IF amps = {} THEN Len(url) + 1
                ELSE CHOOSE j \in amps : \A a \in amps : j <= a
    IN  SubSeq(url, p + 1, stop - 1)

\* C14: the abstract_id of a record is the text that follows "abstract_id=" in
\* the item's URL, up to but not including the next "&", or up to the end of
\* the URL when no "&" follows (the last "abstract_id=" when the URL holds
\* several).
C14_AbstractIdIsTextAfterKey ==
    (PrimaryEnded("record") /\ "abstract_id=" \in Range(paper.url)) =>
        \E rec \in result :
            /\ \E p \in 1..Len(paper.url) :
                  /\ paper.url[p] = "abstract_id="
                  /\ rec.abstract_id = TextAfter(paper.url, p)
            /\ "&" \notin Range(rec.abstract_id)
            /\ "abstract_id=" \notin Range(rec.abstract_id)

\* The case of the claim's example: ...abstract_id=1&1 gives the id "1".
C14_Witness ==
    /\ PrimaryEnded("record")
    /\ paper.url = <<"papers.cfm?", "abstract_id=", "1", "&", "1">>
    /\ \E rec \in result : rec.abstract_id = <<"1">>

\* ---- Abstract Fetcher: finalization and the primary loop ----
\* C15: the step in which run finishes leaves the results document equal to
\* the mapping run returns, and writes the failed-items document exactly when
\* the queue is not empty, with the queue as its content.
C15_FinalDocumentsMatchMemory ==
    [][(pc # "done" /\ pc' = "done") =>
          /\ results_file' = {result_dict'}
          /\ failed_papers' # <<>> => failed_file' = {failed_papers'}
          /\ failed_papers' = <<>> => failed_file' = failed_file]_vars

\* run has finished with a record in the mapping and an item in the queue, and
\* both documents hold them.
C15_Witness ==
    /\ pc = "done"
    /\ DOMAIN result_dict # {}
    /\ failed_papers # <<>>
    /\ results_file = {result_dict}
    /\ failed_file = {failed_papers}

\* An item as the Listing Collector writes it: a title and a url, and no
\* "abstract_id" key.
ListedShape(item) ==
    /\ "url" \in DOMAIN item /\ "title" \in DOMAIN item
    /\ "abstract_id" \notin DOMAIN item

\* C16: once the sweep has gone past a snapshotted item of the shape the
\* Listing Collector writes, whose id derived from its url is not in the
\* Resume Set, that item has been fetched with is_retry = TRUE.
C16_SweepFetchesListedItems ==
    (pc = "sweep" /\ k > 1 /\ ListedShape(retry_papers[k - 1])
       /\ AbstractId(retry_papers[k - 1].url) \notin existing_ids) =>
        (is_retry /\ paper = retry_papers[k - 1] /\ returned \in {"record", "none", "raise"})

\* The primary loop has just taken an item and gone on without fetching it.
Skipped == pc = "loop" /\ i > 0 /\ returned = "" /\ paper # NoPaper

\* C17 as stated: the primary loop skips an item without a fetch exactly when
\* the item lacks both "url" and "title"; an item that lacks only one of them
\* is attempted.
C17_SkippedOnlyWhenBothMissing ==
    Skipped => ("url" \notin DOMAIN paper /\ "title" \notin DOMAIN paper)

\* C17: the primary loop skips an item it takes, without a fetch, exactly when
\* the item lacks "url" or lacks "title"; it calls the fetch for every item it
\* takes that has both.
C17_SkippedWhenEitherMissing ==
    [][(pc = "loop" /\ i' = i + 1) =>
          /\ pc' \in {"loop", "fetch"}
          /\ pc' = "loop" <=> ("url" \notin DOMAIN paper' \/ "title" \notin DOMAIN paper')
          /\ pc' = "fetch" <=> ("url" \in DOMAIN paper' /\ "title" \in DOMAIN paper')
          /\ pc' = "loop" => UNCHANGED <<attempt, faults, failed_papers, result_dict>>
          /\ pc' = "fetch" => attempt' = 1]_vars

\* After storing a record, the loop has skipped an item that has a title and
\* no url.
C17_Witness ==
    /\ Skipped
    /\ i = 2
    /\ DOMAIN result_dict # {}
    /\ "title" \in DOMAIN paper /\ "url" \notin DOMAIN paper

\* C18: after a primary-pass item has failed on its last attempt, and before
\* the fetch of the next item begins, the results document equals result_dict.
C18_SavedAfterFailedItem ==
    PrimaryEnded("raise") => results_file = {result_dict}

\* The second item failed after the first one gave a record: the record is in
\* the document.
C18_Witness ==
    /\ PrimaryEnded("raise")
    /\ i = 2
    /\ DOMAIN result_dict # {}
    /\ results_file = {result_dict}

\* ---- Runs in which a write may fail; termination of run ----
\* The longest input document of these runs.
MaxFairPapers == 2

\* One item of each kind: as the Listing Collector writes it, with an
\* "abstract_id" key, and without a url.
FewItems ==
    { [title |-> "T2", url |-> Url("2")],
      [title |-> "T1", url |-> Url("1"), abstract_id |-> <<"1">>],
      [title |-> "T1"] }

NextFair ==
    \/ SkipPaper(FewItems, MaxFairPapers)
    \/ CallDownload(FewItems, MaxFairPapers)
    \/ AttemptFails
    \/ PrimaryRecord
    \/ PrimaryNone
    \/ PrimaryRaise
    \/ PrimaryRaiseSaveFails
    \/ EndNoFailures
    \/ StartSweep
    \/ SweepKeyError
    \/ SweepSkip
    \/ SweepCall
    \/ SweepRecord
    \/ SweepRecordSaveFails
    \/ SweepNone
    \/ SweepRaise
    \/ Finalize
    \/ FinalSaveFails

\* A run of the Abstract Fetcher on a document of at most MaxFairPapers of
\* these items, against a site that may fail MaxFaults requests and a disk
\* on which any write may fail.  run is one sequential computation that keeps
\* executing until it returns or an exception leaves it: some step is taken
\* as long as one is possible.
SpecFair == Init /\ [][NextFair]_vars /\ WF_vars(NextFair)

\* run has returned, or an exception has left it.
Terminated == pc \in {"done", "aborted"}

\* What is left to do, most significant first: the phase (2 the primary pass,
\* 1 the sweep, 0 the end), the items the phase has not finished with, and the
\* attempts the retry wrapper may still start in the current call.
Rank ==
    IF pc = "loop" THEN <<2, MaxFairPapers - i, 0>>
    ELSE IF pc = "fetch" /\ ~is_retry
    THEN <<2, MaxFairPapers - i, MaxAttempts + 1 - attempt>>
    ELSE IF pc = "sweep" THEN <<1, Len(retry_papers) + 1 - k, 0>>
    ELSE IF pc = "fetch"
    THEN <<1, Len(retry_papers) - k, MaxAttempts + 1 - attempt>>
    ELSE <<0, 0, 0>>

\* The lexicographic order on triples of naturals.
Less(a, b) ==
    \/ a[1] < b[1]
    \/ a[1] = b[1] /\ a[2] < b[2]
    \/ a[1] = b[1] /\ a[2] = b[2] /\ a[3] < b[3]

\* C19: run terminates on every input document of at most MaxFairPapers items
\* whatever the site answers: the primary pass takes each item once, the sweep
\* runs once over its snapshot, a call of download_abstract makes at most
\* MaxAttempts requests; every step leaves less to do, a step is possible
\* until run has ended, and run does end.
C19_RunTerminates ==
    /\ [](\A j \in 1..3 : Rank[j] \in Nat)
    /\ [](attempt <= MaxAttempts)
    /\ [][(Rank[1] = 1 /\ Rank'[1] = 1) => retry_papers' = retry_papers]_vars
    /\ [](Terminated \/ ENABLED NextFair)
    /\ [][Less(Rank', Rank)]_vars
    /\ <>Terminated

\* run has returned after a primary pass over a whole document, in which a
\* call used all its attempts, and a sweep over the whole snapshot.
C19_Witness ==
    /\ pc = "done"
    /\ i = MaxFairPapers
    /\ retry_papers # <<>> /\ k > Len(retry_papers)
    /\ faults >= MaxAttempts

\* C20: when run has finished on an input document of one item, no item of
\* failed_papers has its record, under the id derived from its url, in
\* result_dict.
C20_ResultsAndQueueDisjoint ==
    (pc = "done" /\ i = 1) =>
        \A j \in 1..Len(failed_papers) :
            "url" \in DOMAIN failed_papers[j] =>
                AbstractId(failed_papers[j].url) \notin DOMAIN result_dict
====
